---- MODULE Spec2Model ----
(***************************************************************************)
(* A model of ugly_clearness.py: marks deposited in layers on a Field, the *)
(* tone-keyed compositing of Field.render, the symbol-intensity mapping,   *)
(* the perturbed path generator inscribe, the layer merge braid, and the   *)
(* entry point main with its guard around the composition script.         *)
(*                                                                         *)
(* Representation.  A tone is an integer number of hundredths (45 is the   *)
(* float 0.45): every comparison and the product tone * 2 of the source    *)
(* are exact on such values.  A character is its code point and a string   *)
(* is a sequence of code points.  A Layer object is an index into heap,    *)
(* so that two references to one Layer are one index.                      *)
(***************************************************************************)
EXTENDS Integers, Sequences, FiniteSets, TLC

VARIABLES width, height, heap, layers, grid, out, last, arg, pc, failAt,
          stdout, exit

vars ==
    <<width, height, heap, layers, grid, out, last, arg, pc, failAt, stdout, exit>>

\* ------------------------------------------------------------------------
\* Bounds of the model
\* ------------------------------------------------------------------------

\* Layer objects a run creates at most, the result of a braid not counted.
MaxHeap == 2

\* Marks a run writes at most, over all layers.
MaxMarks == 3

\* Layers a Field receives at most.
MaxDeposits == 2

\* Steps of one inscribe call at most.
MaxSteps == 6

\* Layers one braid call merges at most.
MaxBraid == 2

\* Calls of inscribe at most, where inscribe is examined on its own.
MaxCalls == 1

\* Hundredths by which a tone tried lies outside [0,1] at most.
MaxOver == 10

\* ------------------------------------------------------------------------
\* Small helpers
\* ------------------------------------------------------------------------

Min(a, b) == IF a <= b THEN a ELSE b

Max(a, b) == IF a >= b THEN a ELSE b

Abs(a) == IF a >= 0 THEN a ELSE -a

RECURSIVE Repeat(_, _)
\* Python's  s * k  for a string s.
Repeat(s, k) == IF k <= 0 THEN <<>> ELSE s \o Repeat(s, k - 1)

RECURSIVE BitXor(_, _)
\* Python's  a ^ b  on non-negative integers.
BitXor(a, b) ==
    IF a = 0 THEN b
    ELSE IF b = 0 THEN a
    ELSE (((a % 2) + (b % 2)) % 2) + 2 * BitXor(a \div 2, b \div 2)

\* ------------------------------------------------------------------------
\* II. Lexicon
\* ------------------------------------------------------------------------

ORDER == <<"gap", "ask", "answer", "turn", "doubt", "care", "resolve">>

\* The tags of PALETTE.
KnownTags == {ORDER[i] : i \in 1..Len(ORDER)}

\* Two tags outside the lexicon: an unknown word and the empty string.
Tags == KnownTags \cup {"zzz", ""}

\* The characters of a tag's name.
TagChars(tag) ==
    CASE tag = "gap"     -> <<103, 97, 112>>
      [] tag = "ask"     -> <<97, 115, 107>>
      [] tag = "answer"  -> <<97, 110, 115, 119, 101, 114>>
      [] tag = "turn"    -> <<116, 117, 114, 110>>
      [] tag = "doubt"   -> <<100, 111, 117, 98, 116>>
      [] tag = "care"    -> <<99, 97, 114, 101>>
      [] tag = "resolve" -> <<114, 101, 115, 111, 108, 118, 101>>
      [] tag = "zzz"     -> <<122, 122, 122>>
      [] OTHER           -> <<>>

\* PALETTE.get(tag, '?'): ' ', U+00B7, U+2014, U+2227, '~', '*', U+220E.
PALETTE(tag) ==
    CASE tag = "gap"     -> <<32>>
      [] tag = "ask"     -> <<183>>
      [] tag = "answer"  -> <<8212>>
      [] tag = "turn"    -> <<8743>>
      [] tag = "doubt"   -> <<126>>
      [] tag = "care"    -> <<42>>
      [] tag = "resolve" -> <<8718>>
      [] OTHER           -> <<63>>

\* max(0.0, min(1.0, tone)), in hundredths.
Clamp(tone) == Max(0, Min(100, tone))

\* A variant of Intensity that rounds to the nearest level.
IntensityRounded(tone) == 1 + (Clamp(tone) * 2 + 50) \div 100

\* k = 1 + int(clamp(tone) * 2)
Intensity(tone) == 1 + (Clamp(tone) * 2) \div 100

symbol(tag, tone) == Repeat(PALETTE(tag), Intensity(tone))

\* ------------------------------------------------------------------------
\* III. Dynamics
\* ------------------------------------------------------------------------

\* The multiplier 6364136223846793005 is 0x5851F42D4C957F2D.  Only its low
\* 32 bits, 0x4C957F2D, reach r, which is masked with 0xFFFFFFFF; they are
\* kept here as two 16-bit halves so that no product leaves 32-bit integers.
MulHi == 19605

MulLo == 32557

\* Bits 0..15 of r = (seed * 6364136223846793005 + 1) & 0xFFFFFFFF.
MixLow(seed) == (seed * MulLo + 1) % 65536

\* Bits 16..31 of r.
MixHigh(seed) == (seed * MulHi + ((seed * MulLo + 1) \div 65536)) % 65536

\* dx = (r >> 8) % 3 - 1
DriftX(seed) == ((MixHigh(seed) * 256 + (MixLow(seed) \div 256)) % 3) - 1

\* dy = (r >> 16) % 3 - 1
DriftY(seed) == (MixHigh(seed) % 3) - 1

perturb(x, y, seed) == <<x + DriftX(seed), y + DriftY(seed)>>

\* ord(t[0]) if t else 0
FirstOrd(tag) == IF TagChars(tag) = <<>> THEN 0 ELSE TagChars(tag)[1]

RECURSIVE FoldFrom(_, _, _)
\* The loop of fold_trace from element i on, h being the value so far.
FoldFrom(trace, i, h) ==
    IF i > Len(trace) THEN h
    ELSE FoldFrom(trace, i + 1, BitXor(h * 32 - h, FirstOrd(trace[i])))

fold_trace(trace) == FoldFrom(trace, 1, 0)

\* ------------------------------------------------------------------------
\* I. Primitives
\* ------------------------------------------------------------------------

\* Mark(x, y, tone, tag)
Mark(x, y, tone, tag) == [x |-> x, y |-> y, tone |-> tone, tag |-> tag]

\* ------------------------------------------------------------------------
\* IV. Makers
\* ------------------------------------------------------------------------

\* The advance of x after step i of inscribe.
StepX(tag, i, stride) ==
    IF tag = "turn" THEN (IF i % 2 = 0 THEN 1 ELSE 0) ELSE stride

\* The advance of y after step i of inscribe.
StepY(tag, i) ==
    CASE tag = "ask"    -> -(IF i % 2 = 0 THEN 1 ELSE 0)
      [] tag = "answer" -> (IF i % 3 = 0 THEN 1 ELSE 0)
      [] tag = "turn"   -> (IF i % 2 # 0 THEN 1 ELSE -1)
      [] tag = "doubt"  -> (IF (i \div 2) % 2 # 0 THEN 1 ELSE -1)
      [] OTHER          -> 0

RECURSIVE InscribeDrifting(_, _, _, _, _, _, _, _)
\* A variant of InscribeFrom that advances from the perturbed position.
InscribeDrifting(i, x, y, steps, tag, stride, tone, acc) ==
    IF i >= steps THEN acc
    ELSE LET p == perturb(x, y, i + fold_trace(<<tag>>))
         IN  InscribeDrifting(i + 1, p[1] + StepX(tag, i, stride),
                              p[2] + StepY(tag, i), steps, tag, stride, tone,
                              Append(acc, Mark(p[1], p[2], tone, tag)))

RECURSIVE InscribeFrom(_, _, _, _, _, _, _, _)
\* The loop of inscribe from step i on, (x, y) being the running position
\* and acc the marks of the layer so far.
InscribeFrom(i, x, y, steps, tag, stride, tone, acc) ==
    IF i >= steps THEN acc
    ELSE LET p == perturb(x, y, i + fold_trace(<<tag>>))
         IN  InscribeFrom(i + 1, x + StepX(tag, i, stride),
                          y + StepY(tag, i), steps, tag, stride, tone,
                          Append(acc, Mark(p[1], p[2], tone, tag)))

\* The marks of the layer inscribe builds.
InscribeMarks(origin, steps, tag, stride, tone) ==
    InscribeFrom(0, origin[1], origin[2], steps, tag, stride, tone, <<>>)

RECURSIVE Concat(_)
\* The marks of a sequence of layers in processing order: layer by layer,
\* then mark by mark.
Concat(ls) == IF ls = <<>> THEN <<>> ELSE Head(ls) \o Concat(Tail(ls))

\* The position in bag of the mark stored under m's key, 0 when there is none.
BagIndex(bag, m) ==
    IF \E j \in 1..Len(bag) : bag[j].x = m.x /\ bag[j].y = m.y
    THEN CHOOSE j \in 1..Len(bag) : bag[j].x = m.x /\ bag[j].y = m.y
    ELSE 0

\* A variant of BagPut that keeps the first of two marks of equal tone.
BagPutStrict(bag, m) ==
    LET j == BagIndex(bag, m)
    IN  IF j = 0 THEN Append(bag, m)
        ELSE IF bag[j].tone < m.tone THEN [bag EXCEPT ![j] = m]
        ELSE bag

\* if key not in bag or bag[key].tone <= m.tone: bag[key] = m
\* (a dict keeps a key at the place of its first insertion).
BagPut(bag, m) ==
    LET j == BagIndex(bag, m)
    IN  IF j = 0 THEN Append(bag, m)
        ELSE IF bag[j].tone <= m.tone THEN [bag EXCEPT ![j] = m]
        ELSE bag

RECURSIVE BraidFrom(_, _, _)
\* The loops of braid from mark i of the scan on.
BraidFrom(marks, i, bag) ==
    IF i > Len(marks) THEN bag
    ELSE BraidFrom(marks, i + 1, BagPut(bag, marks[i]))

\* merged.marks of braid(*ls), ls being the marks of each layer.
BraidMarks(ls) == BraidFrom(Concat(ls), 1, <<>>)

\* ------------------------------------------------------------------------
\* Field.render
\* ------------------------------------------------------------------------

\* The grid before the traversal, a list of h rows of w cells (0.0, ' '):
\* cell (x, y) is g[y + 1][x + 1].
EmptyGrid(w, h) ==
    [y \in 1..h |-> [x \in 1..w |-> [tone |-> 0, ch |-> <<32>>]] \o <<>>] \o <<>>

\* Python's index i into a list of n elements: a negative i counts from
\* the end.
ListIndex(i, n) == IF i < 0 THEN i + n ELSE i

\* grid[y][x]
Cell(g, x, y, w, h) == g[ListIndex(y, h) + 1][ListIndex(x, w) + 1]

\* A variant of InBounds without the lower limits.
InBoundsAbove(m, w, h) == m.x < w /\ m.y < h

\* 0 <= m.x < self.width and 0 <= m.y < self.height
InBounds(m, w, h) == 0 <= m.x /\ m.x < w /\ 0 <= m.y /\ m.y < h

\* A variant of Overrides that keeps the first of two marks of equal tone.
OverridesStrict(m, old) == m.tone > old.tone

\* m.tone >= old_tone
Overrides(m, old) == m.tone >= old.tone

\* grid[m.y][m.x] = (m.tone, symbol(m.tag, m.tone))
Stamp(g, m, w, h) ==
    [g EXCEPT ![ListIndex(m.y, h) + 1][ListIndex(m.x, w) + 1] =
        [tone |-> m.tone, ch |-> symbol(m.tag, m.tone)]]

\* The body of the traversal for one mark.
Visit(g, m, w, h) ==
    IF InBounds(m, w, h)
    THEN (IF Overrides(m, Cell(g, m.x, m.y, w, h))
          THEN Stamp(g, m, w, h) ELSE g)
    ELSE g

RECURSIVE ComposeFrom(_, _, _, _, _)
\* The traversal from mark i of the processing order on, g being the grid
\* so far (a grid without rows takes no mark).
ComposeFrom(g, marks, i, w, h) ==
    IF g = <<>> \/ i > Len(marks) THEN g
    ELSE ComposeFrom(Visit(g, marks[i], w, h), marks, i + 1, w, h)

\* The grid after the traversal of the layers ls.
ComposeGrid(w, h, ls) == ComposeFrom(EmptyGrid(w, h), Concat(ls), 1, w, h)

\* The characters str.isspace() accepts.
Whitespace ==
    (9..13) \cup (28..32) \cup {133, 160, 5760} \cup (8192..8202)
    \cup {8232, 8233, 8239, 8287, 12288}

RECURSIVE RStrip(_)
\* str.rstrip()
RStrip(s) ==
    IF s = <<>> THEN s
    ELSE IF s[Len(s)] \in Whitespace THEN RStrip(SubSeq(s, 1, Len(s) - 1))
    ELSE s

RECURSIVE RowJoin(_)
\* ''.join(ch for _, ch in row)
RowJoin(row) == IF row = <<>> THEN <<>> ELSE Head(row).ch \o RowJoin(Tail(row))

\* lines = [''.join(ch for _, ch in row).rstrip() for row in grid]
Lines(g) == [i \in 1..Len(g) |-> RStrip(RowJoin(g[i]))]

RECURSIVE Join(_, _)
\* sep.join(parts)
Join(sep, parts) ==
    IF parts = <<>> THEN <<>>
    ELSE IF Len(parts) = 1 THEN parts[1]
    ELSE parts[1] \o sep \o Join(sep, Tail(parts))

\* f"{symbol(t,0.7)}={t}"
LegendEntry(t) == symbol(t, 70) \o <<61>> \o TagChars(t)

\* "\n legend: " + '  '.join(... for t in ORDER if t != 'gap')
Legend ==
    <<10, 32, 108, 101, 103, 101, 110, 100, 58, 32>>
    \o Join(<<32, 32>>,
            [i \in 1..(Len(ORDER) - 1) |-> LegendEntry(ORDER[i + 1])])

\* The text render returns for the grid g.
GridText(g, w, h, legend) ==
    Join(<<10>>, Lines(g)) \o (IF legend THEN Legend ELSE <<>>)

\* Field.render(legend) of a w x h field whose layers hold the marks ls.
RenderText(w, h, ls, legend) == GridText(ComposeGrid(w, h, ls), w, h, legend)

\* ------------------------------------------------------------------------
\* VIII. Execution: the text main prints around the canvas
\* ------------------------------------------------------------------------

\* print("<dash> python inscription <dash>", w.key(), "\n"), the key of
\* Witness being its token "silent".
Header ==
    <<8212, 32, 112, 121, 116, 104, 111, 110, 32, 105, 110, 115, 99, 114,
      105, 112, 116, 105, 111, 110, 32, 8212, 32, 115, 105, 108, 101, 110,
      116, 32, 10, 10>>

\* print("\n(There is no center here. Only traces that refuse to become a map.)")
Closing ==
    <<10, 40, 84, 104, 101, 114, 101, 32, 105, 115, 32, 110, 111, 32, 99,
      101, 110, 116, 101, 114, 32, 104, 101, 114, 101, 46, 32, 79, 110,
      108, 121, 32, 116, 114, 97, 99, 101, 115, 32, 116, 104, 97, 116, 32,
      114, 101, 102, 117, 115, 101, 32, 116, 111, 32, 98, 101, 99, 111,
      109, 101, 32, 97, 32, 109, 97, 112, 46, 41, 10>>

\* ------------------------------------------------------------------------
\* The state
\* ------------------------------------------------------------------------
\* width, height, layers   the Field f (layers: the Layer objects deposited,
\*                         as indices into heap)
\* heap                    every Layer object created, as its marks
\* grid, out               the working grid and the text of the render that
\*                         ran last; the caller drops them when it goes on
\*                         to another operation
\* last, arg               the operation that ran last and its arguments
\* pc, failAt, stdout,     main: its position, the set holding the number
\* exit                    of inscribe calls after which the script raises
\*                         Misunderstanding (empty: it never does), the
\*                         strings printed, the set holding the exit status
\*                         (empty: main has not returned)

NoArg == [h |-> 0]

\* The marks of the layers of the Field, in deposit order.
Held(hp, ls) == [i \in 1..Len(ls) |-> hp[ls[i]]]

RECURSIVE CountMarks(_)
CountMarks(hp) == IF hp = <<>> THEN 0 ELSE Len(Head(hp)) + CountMarks(Tail(hp))

\* Field(w, h): a field without layers; nothing rendered yet.
InitField(w, h) ==
    /\ width = w
    /\ height = h
    /\ heap = <<>>
    /\ layers = <<>>
    /\ grid = <<>>
    /\ out = <<>>
    /\ last = "init"
    /\ arg = NoArg

\* The variables of main, unused while the operations are called directly.
NoMain ==
    /\ pc = "api"
    /\ failAt = {}
    /\ stdout = <<>>
    /\ exit = {}

MainUnchanged == UNCHANGED <<pc, failAt, stdout, exit>>

\* The result of an earlier render is dropped.
Dropped == grid' = <<>> /\ out' = <<>>

\* Layer()
NewLayer ==
    /\ pc = "api"
    /\ Len(heap) < MaxHeap
    /\ heap' = Append(heap, <<>>)
    /\ last' = "new"
    /\ arg' = [h |-> Len(heap) + 1]
    /\ Dropped
    /\ UNCHANGED <<width, height, layers>>
    /\ MainUnchanged

\* A variant of Extended that copies nothing into the layer.
ExtendedNot(marks, ms) == marks

\* self.marks.extend(m)
Extended(marks, ms) == marks \o ms

\* Layer.add(*ms) on the Layer object h.
LayerAdd(h, ms) ==
    /\ pc = "api"
    /\ h \in 1..Len(heap)
    /\ CountMarks(heap) + Len(ms) <= MaxMarks
    /\ heap' = [heap EXCEPT ![h] = Extended(@, ms)]
    /\ last' = "add"
    /\ arg' = [h |-> h]
    /\ Dropped
    /\ UNCHANGED <<width, height, layers>>
    /\ MainUnchanged

\* A variant of Deposited that puts the layer first.
DepositedFirst(ls, h) == <<h>> \o ls

\* self.layers.append(layer)
Deposited(ls, h) == Append(ls, h)

\* Field.deposit(layer) of the Layer object h.
Deposit(h) ==
    /\ pc = "api"
    /\ h \in 1..Len(heap)
    /\ Len(layers) < MaxDeposits
    /\ layers' = Deposited(layers, h)
    /\ last' = "deposit"
    /\ arg' = [h |-> h]
    /\ Dropped
    /\ UNCHANGED <<width, height, heap>>
    /\ MainUnchanged

\* The effect of inscribe(field, origin, steps, tag, stride, tone); the
\* Layer it returns is arg.h.
Inscribed(origin, steps, tag, stride, tone) ==
    /\ heap' = Append(heap, InscribeMarks(origin, steps, tag, stride, tone))
    /\ layers' = Deposited(layers, Len(heap) + 1)
    /\ last' = "inscribe"
    /\ arg' = [h |-> Len(heap) + 1, origin |-> origin, steps |-> steps,
               tag |-> tag, stride |-> stride, tone |-> tone]
    /\ Dropped
    /\ UNCHANGED <<width, height>>

\* inscribe called directly.
Inscribe(origin, steps, tag, stride, tone) ==
    /\ pc = "api"
    /\ Len(heap) < MaxHeap
    /\ Len(layers) < MaxDeposits
    /\ Inscribed(origin, steps, tag, stride, tone)
    /\ MainUnchanged

\* braid(*hs) of the Layer objects hs; the Layer it returns is arg.h, and
\* arg.before keeps the marks the inputs held when braid was called.
Braid(hs) ==
    /\ pc = "api"
    /\ Len(heap) <= MaxHeap
    /\ \A i \in 1..Len(hs) : hs[i] \in 1..Len(heap)
    /\ heap' = Append(heap, BraidMarks([i \in 1..Len(hs) |-> heap[hs[i]]]))
    /\ last' = "braid"
    /\ arg' = [h |-> Len(heap) + 1, inputs |-> hs,
               before |-> [i \in 1..Len(hs) |-> heap[hs[i]]]]
    /\ Dropped
    /\ UNCHANGED <<width, height, layers>>
    /\ MainUnchanged

\* Field.render(legend)
Render(legend) ==
    /\ pc = "api"
    /\ grid' = ComposeGrid(width, height, Held(heap, layers))
    /\ out' = GridText(grid', width, height, legend)
    /\ last' = "render"
    /\ arg' = [h |-> 0, legend |-> legend]
    /\ UNCHANGED <<width, height, heap, layers>>
    /\ MainUnchanged

\* ------------------------------------------------------------------------
\* VI. Scenes and VIII. Execution
\* ------------------------------------------------------------------------

\* W, H = 84, 20
W == 84

H == 20

Call(origin, steps, tag, stride, tone) ==
    [origin |-> origin, steps |-> steps, tag |-> tag, stride |-> stride,
     tone |-> tone]

\* The inscribe calls of scene, in order.
Script ==
    << Call(<<2, 3>>, 22, "ask", 1, 45),
       Call(<<4, 5>>, 20, "answer", 1, 60),
       Call(<<8, 7>>, 14, "turn", 1, 70),
       Call(<<10, 7>>, 12, "care", 1, 40),
       Call(<<16, 9>>, 6, "resolve", 2, 90),
       Call(<<17, 6>>, 18, "answer", 1, 55),
       Call(<<22, 8>>, 16, "doubt", 1, 50),
       Call(<<23, 8>>, 10, "care", 1, 45),
       Call(<<30, 9>>, 4, "resolve", 2, 90) >>

\* main up to the call of scene: f = Field(W, H).  The script raises
\* Misunderstanding after failAt inscribe calls, or never.
InitMain ==
    /\ InitField(W, H)
    /\ pc = "scene"
    /\ failAt \in {{}} \cup {{k} : k \in 0..Len(Script)}
    /\ stdout = <<>>
    /\ exit = {}

\* The next inscribe call of scene.
SceneInscribe ==
    /\ pc = "scene"
    /\ Len(layers) < Len(Script)
    /\ failAt # {Len(layers)}
    /\ LET c == Script[Len(layers) + 1]
       IN  Inscribed(c.origin, c.steps, c.tag, c.stride, c.tone)
    /\ UNCHANGED <<pc, failAt, stdout, exit>>

\* Misunderstanding raised in scene: control leaves scene for the handler.
SceneRaise ==
    /\ pc = "scene"
    /\ failAt = {Len(layers)}
    /\ pc' = "caught"
    /\ last' = "raise"
    /\ UNCHANGED <<width, height, heap, layers, grid, out, arg, failAt,
                   stdout, exit>>

\* scene returns.
SceneReturn ==
    /\ pc = "scene"
    /\ Len(layers) = Len(Script)
    /\ failAt # {Len(layers)}
    /\ pc' = "header"
    /\ last' = "return"
    /\ UNCHANGED <<width, height, heap, layers, grid, out, arg, failAt,
                   stdout, exit>>

\* A variant of Residue that starts over with an empty field.
ResidueNone(ls) == <<>>

\* The layers of f after the handler: it does nothing.
Residue(ls) == ls

\* except Misunderstanding: pass
Caught ==
    /\ pc = "caught"
    /\ layers' = Residue(layers)
    /\ pc' = "header"
    /\ last' = "except"
    /\ UNCHANGED <<width, height, heap, grid, out, arg, failAt, stdout, exit>>

\* print("... python inscription ...", w.key(), "\n")
PrintHeader ==
    /\ pc = "header"
    /\ stdout' = Append(stdout, Header)
    /\ pc' = "draw"
    /\ UNCHANGED <<width, height, heap, layers, grid, out, last, arg, failAt,
                   exit>>

\* print(draw(f))
PrintDraw ==
    /\ pc = "draw"
    /\ grid' = ComposeGrid(width, height, Held(heap, layers))
    /\ out' = GridText(grid', width, height, TRUE)
    /\ stdout' = Append(stdout, out' \o <<10>>)
    /\ last' = "render"
    /\ arg' = [h |-> 0, legend |-> TRUE]
    /\ pc' = "closing"
    /\ UNCHANGED <<width, height, heap, layers, failAt, exit>>

\* print("\n(There is no center here. ...)")
PrintClosing ==
    /\ pc = "closing"
    /\ stdout' = Append(stdout, Closing)
    /\ pc' = "return"
    /\ UNCHANGED <<width, height, heap, layers, grid, out, last, arg, failAt,
                   exit>>

\* return 0
MainReturn ==
    /\ pc = "return"
    /\ exit' = {0}
    /\ pc' = "done"
    /\ UNCHANGED <<width, height, heap, layers, grid, out, last, arg, failAt,
                   stdout>>

NextMain ==
    \/ SceneInscribe
    \/ SceneRaise
    \/ SceneReturn
    \/ Caught
    \/ PrintHeader
    \/ PrintDraw
    \/ PrintClosing
    \/ MainReturn

SpecMain == InitMain /\ [][NextMain]_vars

\* ------------------------------------------------------------------------
\* Specifications of the operations called directly
\* ------------------------------------------------------------------------

\* A 2 x 2 field.
InitApi == InitField(2, 2) /\ NoMain

\* The Layer object created last has been deposited (or there is none).
NewestDeposited == heap = <<>> \/ \E i \in 1..Len(layers) : layers[i] = Len(heap)

\* A caller that builds one layer at a time from the marks of pool: it
\* creates a layer, adds marks to it and deposits it once, in any order of
\* the last two, and renders at any time.
Build(pool) ==
    \/ NewestDeposited /\ NewLayer
    \/ \E m \in pool : LayerAdd(Len(heap), <<m>>)
    \/ ~NewestDeposited /\ Deposit(Len(heap))
    \/ \E legend \in BOOLEAN : Render(legend)

\* Marks of one cell with tones in [0,1], equal and different, and a mark
\* of another cell.
PoolTone ==
    { Mark(0, 0, 0, "care"), Mark(0, 0, 50, "care"), Mark(0, 0, 50, "ask"),
      Mark(0, 0, 100, "answer"), Mark(1, 1, 50, "turn") }

SpecTone == InitApi /\ [][Build(PoolTone)]_vars

\* Marks beyond each edge of the field, and marks inside.
PoolBounds ==
    { Mark(-1, 0, 100, "ask"), Mark(2, 1, 100, "ask"), Mark(0, -1, 100, "ask"),
      Mark(1, 2, 100, "ask"), Mark(0, 0, 50, "care"), Mark(1, 1, 50, "turn") }

SpecBounds == InitApi /\ [][Build(PoolBounds)]_vars

\* Marks with tones below 0, within [0,1] and above 1.
PoolRange ==
    { Mark(0, 0, -10, "care"), Mark(0, 0, 120, "care"), Mark(1, 0, -10, "ask"),
      Mark(1, 0, 50, "ask"), Mark(0, 1, 0, "turn") }

SpecRange == InitApi /\ [][Build(PoolRange)]_vars

\* Marks of every intensity, a gap among them.
PoolRows ==
    { Mark(0, 0, 45, "care"), Mark(0, 0, 50, "care"), Mark(1, 0, 45, "ask"),
      Mark(1, 0, 100, "gap"), Mark(1, 1, 100, "turn") }

SpecRows == InitApi /\ [][Build(PoolRows)]_vars

\* The sequences of at most n elements of S, n being 0, 1, 2 or 3.
SeqUpTo(S, n) ==
    {<<>>}
    \cup (IF n >= 1 THEN {<<a>> : a \in S} ELSE {})
    \cup (IF n >= 2 THEN {<<a, b>> : a \in S, b \in S} ELSE {})
    \cup (IF n >= 3 THEN {<<a, b, c>> : a \in S, b \in S, c \in S} ELSE {})

\* Marks for the layers braid merges.
PoolBraid ==
    { Mark(0, 0, 50, "care"), Mark(0, 0, 50, "ask"), Mark(0, 0, 100, "turn"),
      Mark(1, 0, -10, "ask"), Mark(-1, 0, 50, "care") }

\* A caller that builds layers and then braids some of them, once.
NextBraid ==
    \/ last # "braid" /\ Len(heap) < MaxHeap /\ NewLayer
    \/ last # "braid" /\ \E m \in PoolBraid : LayerAdd(Len(heap), <<m>>)
    \/ last # "braid" /\ \E hs \in SeqUpTo(1..Len(heap), MaxBraid) : Braid(hs)

SpecBraid == InitApi /\ [][NextBraid]_vars

\* Marks for a caller that keeps the handles of its layers.
PoolApi == { Mark(0, 0, 50, "care"), Mark(1, 0, 100, "turn") }

\* Every operation, on any Layer object created so far.
Next ==
    \/ NewLayer
    \/ \E h \in 1..Len(heap), m \in PoolApi : LayerAdd(h, <<m>>)
    \/ \E h \in 1..Len(heap) : Deposit(h)
    \/ \E n \in {0, 2} : Inscribe(<<0, 0>>, n, "turn", 1, 50)
    \/ Braid(layers)
    \/ Render(FALSE)

Spec == InitApi /\ [][Next]_vars

\* The origins and strides of the inscribe calls tried.
Starts == { [origin |-> <<2, 3>>, stride |-> 1], [origin |-> <<0, 0>>, stride |-> 2],
            [origin |-> <<1, 1>>, stride |-> -1] }

\* inscribe on its own, over every tag and a range of its other arguments.
NextInscribe ==
    \E s \in Starts, n \in 0..MaxSteps, t \in Tags :
        Len(layers) < MaxCalls /\ Inscribe(s.origin, n, t, s.stride, 45)

SpecInscribe == InitApi /\ [][NextInscribe]_vars

\* symbol on its own: a tag and a tone are drawn, then symbol is applied.
InitSymbol ==
    /\ width = 2
    /\ height = 2
    /\ heap = <<>>
    /\ layers = <<>>
    /\ grid = <<>>
    /\ out = <<>>
    /\ last = "init"
    /\ arg \in {[h |-> 0, tag |-> t, tone |-> n] :
                    t \in Tags, n \in (0 - MaxOver)..(100 + MaxOver)}
    /\ pc = "symbol"
    /\ failAt = {}
    /\ stdout = <<>>
    /\ exit = {}

\* out = symbol(tag, tone)
Symbol ==
    /\ pc = "symbol"
    /\ last = "init"
    /\ out' = symbol(arg.tag, arg.tone)
    /\ last' = "symbol"
    /\ UNCHANGED <<width, height, heap, layers, grid, arg, pc, failAt, stdout, exit>>

SpecSymbol == InitSymbol /\ [][Symbol]_vars

\* ========================================================================
\* The claims
\* ========================================================================

\* The marks of the field in processing order.
Processed == Concat(Held(heap, layers))

\* The places in ms of the marks at coordinate (x, y).
MarksAt(ms, x, y) == {i \in 1..Len(ms) : ms[i].x = x /\ ms[i].y = y}

\* The place in ms of the mark of maximum tone at (x, y), the last one of
\* them when several reach the maximum.
Winner(ms, x, y) ==
    CHOOSE i \in MarksAt(ms, x, y) :
        \A j \in MarksAt(ms, x, y) :
            ms[j].tone < ms[i].tone \/ (ms[j].tone = ms[i].tone /\ j <= i)

\* What the render that ran last stored for cell (x, y).
Shown(x, y) == grid[y + 1][x + 1].ch

\* The coordinates of the canvas.
Xs == 0..(width - 1)

Ys == 0..(height - 1)

\* C1: after a render of a field whose marks all have tones in [0,1], every
\* cell of the canvas that holds a mark shows the symbol of the mark of
\* maximum tone there, the one processed last among those of maximum tone.
C1_MaxToneLastWins ==
    (last = "render" /\ \A i \in 1..Len(Processed) : Processed[i].tone \in 0..100)
    => \A x \in Xs, y \in Ys :
          MarksAt(Processed, x, y) # {}
          => LET m == Processed[Winner(Processed, x, y)]
             IN  Shown(x, y) = symbol(m.tag, m.tone)

\* C1 happens: two layers, the first with a tone-1 mark at (0,0) and the
\* second with a lower mark there, and two marks of equal tone and
\* different tags at that cell, rendered.
C1_Witness ==
    /\ last = "render"
    /\ Len(layers) = 2
    /\ \E i \in 1..Len(heap[layers[1]]) : heap[layers[1]][i] = Mark(0, 0, 100, "answer")
    /\ \E i \in 1..Len(heap[layers[2]]) : heap[layers[2]][i] = Mark(0, 0, 50, "care")
    /\ Shown(0, 0) = symbol("answer", 100)

\* C1 happens on a tie as well: the later of two marks of equal tone shows.
C1_TieWitness ==
    /\ last = "render"
    /\ Processed = <<Mark(0, 0, 50, "ask"), Mark(0, 0, 50, "care")>>
    /\ Shown(0, 0) = symbol("care", 50)

\* A mark lies on the canvas (stated without the model's test).
OnCanvas(m) == m.x \in Xs /\ m.y \in Ys

\* The layers of the field without the marks outside the canvas.
HeldOnCanvas ==
    [i \in 1..Len(layers) |-> SelectSeq(heap[layers[i]], OnCanvas)]

\* C2: a render returns the text, and composes the grid, that it would for
\* the same layers with every mark outside the canvas removed.
C2_OutOfBoundsDropped ==
    last = "render"
    => /\ out = RenderText(width, height, HeldOnCanvas, arg.legend)
       /\ grid = ComposeGrid(width, height, HeldOnCanvas)

\* C2 happens: a field holding a mark left of the canvas, a mark above it
\* and a mark on it, rendered.
C2_Witness ==
    /\ last = "render"
    /\ \E i \in 1..Len(Processed) : Processed[i].x < 0
    /\ \E i \in 1..Len(Processed) : Processed[i].y < 0
    /\ \E i \in 1..Len(Processed) : OnCanvas(Processed[i])

\* The number of inscribe calls that completed before main printed.
Completed == IF failAt = {} THEN Len(Script) ELSE CHOOSE k \in failAt : TRUE

\* The layers the first k calls of the script deposit.
ScriptLayers(k) ==
    [j \in 1..k |-> InscribeMarks(Script[j].origin, Script[j].steps, Script[j].tag,
                                  Script[j].stride, Script[j].tone)]

\* C3: when the script raises Misunderstanding after k inscribe calls, main
\* ends with status 0 having printed the canvas of a field that holds the
\* k layers deposited before, in order, between its header and closing.
C3_PartialProgressPrinted ==
    (pc = "done" /\ failAt # {})
    => /\ exit = {0}
       /\ Held(heap, layers) = ScriptLayers(Completed)
       /\ stdout = << Header,
                      RenderText(W, H, ScriptLayers(Completed), TRUE) \o <<10>>,
                      Closing >>

\* C3 happens: main has returned after a failure that followed three calls.
C3_Witness == pc = "done" /\ failAt = {3} /\ Len(layers) = 3

\* s is a prefix of t.
IsPrefix(s, t) == Len(s) <= Len(t) /\ SubSeq(t, 1, Len(s)) = s

\* C4: deposit, inscribe and render leave width and height alone and keep
\* the layer sequence as a prefix of the new one; deposit and inscribe add
\* exactly one layer; render changes nothing of the Field, and a render
\* that follows a render with the same argument returns the same text.
C4_AppendOnly ==
    [][ last' \in {"deposit", "inscribe", "render"}
        => /\ width' = width /\ height' = height
           /\ IsPrefix(layers, layers')
           /\ IsPrefix(Held(heap, layers), Held(heap', layers'))
           /\ last' \in {"deposit", "inscribe"} => Len(layers') = Len(layers) + 1
           /\ last' = "render" => heap' = heap /\ layers' = layers
           /\ (last' = "render" /\ last = "render" /\ arg' = arg) => out' = out
      ]_vars

\* C4 happens: a field that received two different layers has been rendered.
C4_Witness ==
    /\ last = "render"
    /\ Len(layers) = 2
    /\ heap[layers[1]] # heap[layers[2]]
    /\ out # <<>>

\* C5 as claimed: no step changes the marks the field holds for a layer.
C5_NeverMutated ==
    [][ \A i \in 1..Len(layers) :
            i <= Len(layers') /\ heap'[layers'[i]] = heap[layers[i]] ]_vars

\* C5, amended: deposit, inscribe, braid, render and the creation of a
\* layer change the marks the field holds for no layer; the field holds the
\* Layer object itself, so that Layer.add on a deposited layer appends its
\* marks to what the field holds for it, and for that layer alone.
C5_MutatedOnlyByAdd ==
    [][ /\ last' # "add"
           => \A i \in 1..Len(layers) :
                 i <= Len(layers') /\ heap'[layers'[i]] = heap[layers[i]]
        /\ last' = "add"
           => \A i \in 1..Len(layers) :
                 /\ layers'[i] = layers[i]
                 /\ layers[i] # arg'.h => heap'[layers[i]] = heap[layers[i]]
                 /\ layers[i] = arg'.h
                    => /\ IsPrefix(heap[layers[i]], heap'[layers[i]])
                       /\ Len(heap'[layers[i]]) > Len(heap[layers[i]])
      ]_vars

\* C5 happens: Layer.add has run on a layer the field holds.
C5_Witness ==
    /\ last = "add"
    /\ \E i \in 1..Len(layers) : layers[i] = arg.h
    /\ heap[arg.h] # <<>>

\* The intensity the claim gives: thirds of [0,1].
Thirds(tone) == IF 3 * tone < 100 THEN 1 ELSE IF 3 * tone < 200 THEN 2 ELSE 3

\* C6 as claimed: for a tone in [0,1], symbol repeats the base character
\* once below 1/3, twice from 1/3 to below 2/3, three times from 2/3 on.
C6_Thirds ==
    (last = "symbol" /\ arg.tone \in 0..100)
    => out = Repeat(PALETTE(arg.tag), Thirds(arg.tone))

\* The intensity of the amended claim: halves of [0,1].
Halves(tone) == IF tone < 50 THEN 1 ELSE IF tone < 100 THEN 2 ELSE 3

\* C6, amended: for a tone in [0,1], symbol repeats the base character once
\* below 1/2, twice from 1/2 to below 1, three times at 1.
C6_Halves ==
    (last = "symbol" /\ arg.tone \in 0..100)
    => out = Repeat(PALETTE(arg.tag), Halves(arg.tone))

\* C6 happens: symbol applied to a tone between 2/3 and 1 returned two
\* characters.
C6_Witness ==
    last = "symbol" /\ arg.tag = "resolve" /\ arg.tone = 90 /\ out = <<8718, 8718>>

\* C7 as claimed: a mark on the canvas that is the only mark at its
\* coordinate shows as symbol(tag, tone), whatever its tone.
C7_AnyToneShown ==
    last = "render"
    => \A i \in 1..Len(Processed) :
          (OnCanvas(Processed[i])
           /\ MarksAt(Processed, Processed[i].x, Processed[i].y) = {i})
          => Shown(Processed[i].x, Processed[i].y)
                = symbol(Processed[i].tag, Processed[i].tone)

\* The position of the path before step i, the jitter left out.
RECURSIVE PathPos(_, _, _, _)
PathPos(origin, tag, stride, i) ==
    IF i = 0 THEN origin
    ELSE LET p == PathPos(origin, tag, stride, i - 1)
         IN  <<p[1] + StepX(tag, i - 1, stride), p[2] + StepY(tag, i - 1)>>

\* C8: inscribe with steps = n deposits, as the last layer of the field, a
\* layer of n marks of the given tag and tone; mark i is the perturbation,
\* with seed i + fold_trace([tag]), of the position the step rule alone
\* leads to, and lies within 1 of it in x and in y.
C8_InscribePath ==
    last = "inscribe"
    => LET marks == heap[arg.h]
       IN  /\ Len(marks) = arg.steps
           /\ layers # <<>> /\ layers[Len(layers)] = arg.h
           /\ \A k \in 1..Len(marks) :
                 LET p == PathPos(arg.origin, arg.tag, arg.stride, k - 1)
                 IN  /\ marks[k].tag = arg.tag
                     /\ marks[k].tone = arg.tone
                     /\ <<marks[k].x, marks[k].y>>
                           = perturb(p[1], p[2], (k - 1) + fold_trace(<<arg.tag>>))
                     /\ Abs(marks[k].x - p[1]) <= 1
                     /\ Abs(marks[k].y - p[2]) <= 1

\* C8 happens: inscribe has drawn a path of the longest length tried whose
\* first marks were moved by the jitter.
C8_Witness ==
    /\ last = "inscribe"
    /\ arg.steps = MaxSteps
    /\ arg.tag = "doubt"
    /\ \E k \in 1..2 : <<heap[arg.h][k].x, heap[arg.h][k].y>>
                          # PathPos(arg.origin, arg.tag, arg.stride, k - 1)

\* C8 happens for n = 0 as well: an empty layer was deposited.
C8_EmptyWitness == last = "inscribe" /\ arg.steps = 0 /\ heap[arg.h] = <<>>

\* The place of the k-th newline of a text: 0 for k = 0, and one past the
\* end of the text when it has fewer.
Break(text, k) ==
    LET nl == {i \in 1..Len(text) : text[i] = 10}
    IN  IF k = 0 THEN 0
        ELSE IF k > Cardinality(nl) THEN Len(text) + 1
        ELSE CHOOSE i \in nl : Cardinality({j \in nl : j <= i}) = k

\* The k-th line of a text.
Line(text, k) == SubSeq(text, Break(text, k - 1) + 1, Break(text, k) - 1)

\* C9 as claimed: every grid row of the text has at most width characters
\* and shows the character of the cell of column x at index x.
C9_RowsOfWidth ==
    last = "render"
    => \A y \in Ys :
          LET row == Line(out, y + 1)
          IN  /\ Len(row) <= width
              /\ \A x \in Xs :
                    IF x + 1 <= Len(row)
                    THEN row[x + 1] = Shown(x, y)[1]
                    ELSE Shown(x, y)[1] \in Whitespace

\* C10: the layer braid returns holds, for every coordinate occupied in its
\* inputs, exactly one mark, the one of maximum tone there and the last of
\* those in scan order, and no other mark; a field holding it alone renders
\* the text of a field holding the inputs in order; the inputs hold after
\* the braid the marks they held before it.
C10_BraidAgreesWithRender ==
    last = "braid"
    => LET scan == Concat(arg.before)
           merged == heap[arg.h]
       IN  /\ \A i \in 1..Len(scan) :
                 /\ Cardinality(MarksAt(merged, scan[i].x, scan[i].y)) = 1
                 /\ \E j \in 1..Len(merged) :
                       merged[j] = scan[Winner(scan, scan[i].x, scan[i].y)]
           /\ \A j \in 1..Len(merged) :
                 MarksAt(scan, merged[j].x, merged[j].y) # {}
           /\ \A legend \in BOOLEAN :
                 RenderText(width, height, <<merged>>, legend)
                    = RenderText(width, height, arg.before, legend)
           /\ \A i \in 1..Len(arg.inputs) : heap[arg.inputs[i]] = arg.before[i]

\* C10 happens: braid merged two different layers holding marks of equal
\* tone and different tags at one coordinate.
C10_Witness ==
    /\ last = "braid"
    /\ Len(arg.inputs) = 2
    /\ arg.inputs[1] # arg.inputs[2]
    /\ \E i \in 1..Len(heap[arg.inputs[1]]), j \in 1..Len(heap[arg.inputs[2]]) :
          /\ heap[arg.inputs[1]][i] = Mark(0, 0, 50, "care")
          /\ heap[arg.inputs[2]][j] = Mark(0, 0, 50, "ask")
    /\ heap[arg.h] = <<Mark(0, 0, 50, "ask")>>

====
